---- MODULE Spec2Model ----
(***************************************************************************)
(* Model of git-auto-sync (src/src/main.rs): a daemon that, at startup and *)
(* then on every timer tick, runs one attempt  commit -> pull -> push  on  *)
(* one repository, under tokio::time::timeout.                             *)
(*                                                                         *)
(* The repository is modelled at the level at which the code uses libgit2: *)
(* an object store of commits, branch references, HEAD, the remote         *)
(* tracking reference, the index (stage-0 entries and conflict entries),   *)
(* the working tree and MERGE_HEAD.  File contents are atomic values: two  *)
(* different edits of one path conflict, edits of different paths merge.   *)
(*                                                                         *)
(* Environment: a user edits the working tree while the daemon is not in   *)
(* an attempt, and other clients push commits to origin at any time.       *)
(*                                                                         *)
(* Two specifications share the program's actions.  Spec explores the      *)
(* repository: every network call returns at once.  TimedSpec explores the *)
(* scheduler: network calls may block for as long as the deadline, and the *)
(* configured interval varies.                                             *)
(***************************************************************************)
EXTENDS Integers, Sequences, FiniteSets, TLC

\* ------------------------------------------------------------------ bounds
MaxMade == 2            \* commits the daemon creates
MaxOther == 1           \* commits other clients push to origin
MaxBlocked == 2         \* times a network call blocks for a whole deadline

\* ------------------------------------------------------------ file contents
Paths == {"a", "b"}
Absent == <<>>                          \* the path does not exist
BaseContent == <<0>>                    \* content of every path in the root commit
UserContents == {<<1>>}                 \* what a user edit leaves at a path
OtherContents == {Absent, <<0>>, <<1>>, <<2>>}  \* what another client's commit leaves

\* The file a both-modified conflict leaves in the working tree:
\* <<<<<<< ours ======= theirs >>>>>>>
Mark(o, t) == <<7>> \o o \o <<8>> \o t \o <<9>>

EmptyTree == [p \in Paths |-> Absent]
RootTree == [p \in Paths |-> BaseContent]

\* ---------------------------------------------------------- configuration
\* Config.branch_name, the branches HEAD may be attached to, and the
\* interval_minutes values explored.
branch_name == "main"
Branches == {"main", "dev"}
IntervalChoices == {1, 71583}
HeadChoices == {"main", "dev"}

\* u32 values are kept as two 16-bit limbs, so that wrap-around is computed
\* and not assumed away.
Limb == 65536
ToU32(n) == [hi |-> (n \div Limb) % Limb, lo |-> n % Limb]
MulU32(x, k) ==
    LET p == x.lo * k
    IN  [hi |-> (x.hi * k + p \div Limb) % Limb, lo |-> p % Limb]

\* What x * k carries out of 32 bits.
CarryU32(x, k) == (x.hi * k + (x.lo * k) \div Limb) \div Limb

\* let interval_ms = config.interval_minutes * 1000 * 60;   (u32)
\* A release build wraps; a debug build panics when a product overflows.
interval_ms(minutes) == MulU32(MulU32(ToU32(minutes), 1000), 60)
IntervalOverflows(minutes) ==
    \/ CarryU32(ToU32(minutes), 1000) > 0
    \/ CarryU32(MulU32(ToU32(minutes), 1000), 60) > 0
Builds == {"debug", "release"}

\* Duration::from_secs((interval_ms / 2) as u64): the deadline, in seconds.
timeout_secs(ms) == ms.hi * (Limb \div 2) + ms.lo \div 2

\* --------------------------------------------------------------- variables
VARIABLES
    interval_minutes,  \* Config.interval_minutes
    commits,           \* object store: sequence of commits, a commit's id is its index
    repo,              \* the opened Repository (refs, HEAD, index, working tree, ...)
    origin,            \* the commit refs/heads/<branch_name> points at on the remote
    pc,                \* where main() is
    inflight,          \* handled_run() invocations started and not yet returned
    elapsed,           \* seconds since the current attempt started
    phaseRes,          \* this attempt: result of each phase, "none" if it did not run
    outcome,           \* this attempt: how run() ended
    alert,             \* this attempt: what the error handler's alert did
    timeout_result,    \* what the last tokio::time::timeout returned
    pushStatus,        \* this attempt: status the remote reported for the pushed ref
    lastCommit,        \* history: this attempt's call of commit() (headBefore is 0
                       \* when repo.head() failed, new is 0 when nothing was created)
    lastPull,          \* history: this attempt's call of pull()
    conflictLeft,      \* history: a conflict left for a human, untouched since
    ticker             \* history: what started the attempts, and when

vars == <<interval_minutes, commits, repo, origin, pc, inflight, elapsed,
          phaseRes, outcome, alert, timeout_result, pushStatus, lastCommit,
          lastPull, conflictLeft, ticker>>

\* ------------------------------------------------------------ commit graph
RECURSIVE Ancestors(_, _)
Ancestors(cs, c) ==
    {c} \cup UNION {Ancestors(cs, cs[c].parents[i]) : i \in DOMAIN cs[c].parents}

IsAncestor(cs, a, b) == a \in Ancestors(cs, b)

\* git_merge_base: the common ancestor every other common ancestor is an
\* ancestor of (0 if the histories are unrelated).
MergeBase(cs, a, b) ==
    LET common == Ancestors(cs, a) \cap Ancestors(cs, b)
    IN  IF common = {} THEN 0
        ELSE CHOOSE m \in common : \A x \in common : IsAncestor(cs, x, m)

TreeOf(cs, c) == IF c = 0 THEN EmptyTree ELSE cs[c].tree

DaemonCommits(cs) == {i \in DOMAIN cs : cs[i].author = "daemon"}

HeadCommit(r) == r.refs[r.head_name]

\* --------------------------------------------------------- commit (22-48)
\* index.add_all(["*"]): every path of the working tree is staged at stage 0;
\* staging a path drops its conflict entries (libgit2 moves them to REUC).
add_all(r) == [r EXCEPT !.index = r.workdir, !.conflicts = {}]

\* repo.diff_tree_to_index(tree, index).deltas().is_empty()
DiffIsEmpty_Never(tree, index) == FALSE
DiffIsEmpty(tree, index) == tree = index

\* The tree a snapshot commit records: index.write_tree().
WriteTree_Parent(cs, r) == cs[HeadCommit(r)].tree
WriteTree(cs, r) == r.index

\* Faults the environment can inject into commit(): repo.head() fails (25),
\* index.write() fails after the commit was created (45).
CommitFaults == {"none", "head", "index_write"}

commit(cs, r, fault) ==
    LET head == HeadCommit(r)
        staged == add_all(r)
        new == [parents |-> <<head>>, tree |-> WriteTree(cs, staged),
                message |-> "sync", author |-> "daemon"]
    IN  IF fault = "head"
        THEN [cs |-> cs, r |-> r, res |-> "Err", created |-> FALSE]
        ELSE IF DiffIsEmpty(cs[head].tree, staged.index)
        THEN [cs |-> cs, r |-> staged, res |-> "Ok", created |-> FALSE]
        ELSE [cs |-> Append(cs, new),
              r |-> [staged EXCEPT !.refs[r.head_name] = Len(cs) + 1],
              res |-> IF fault = "index_write" THEN "Err" ELSE "Ok",
              created |-> TRUE]

\* ---------------------------------------------------------- pull (66-142)
\* repo.merge_analysis: UP_TO_DATE when the remote commit is reachable from
\* HEAD, FASTFORWARD | NORMAL when HEAD is the merge base, NORMAL otherwise.
merge_analysis_Strict(cs, head, their) ==
    IF their = head THEN {"up_to_date"}
    ELSE IF MergeBase(cs, head, their) = head THEN {"fast_forward", "normal"}
    ELSE {"normal"}
merge_analysis(cs, head, their) ==
    LET base == MergeBase(cs, head, their)
    IN  IF base = their THEN {"up_to_date"}
        ELSE IF base = head THEN {"fast_forward", "normal"}
        ELSE {"normal"}

\* Three-way merge of one path.
PathConflicts(b, o, t) == o # t /\ b # o /\ b # t
PathMerged(b, o, t) == IF o = t THEN o ELSE IF b = o THEN t ELSE o

\* What the merge checks out at a conflicting path: the surviving side of a
\* modify/delete conflict, a file with conflict markers otherwise.
ConflictFile(o, t) ==
    IF o = Absent THEN t ELSE IF t = Absent THEN o ELSE Mark(o, t)

\* repo.merge(&[their]): merges into the index and the working tree, records
\* MERGE_HEAD, moves no reference.
merge(cs, r, their) ==
    LET head == HeadCommit(r)
        b == TreeOf(cs, MergeBase(cs, head, their))
        o == cs[head].tree
        t == cs[their].tree
        bad == {p \in Paths : PathConflicts(b[p], o[p], t[p])}
    IN  [r EXCEPT
           !.index = [p \in Paths |->
                        IF p \in bad THEN Absent ELSE PathMerged(b[p], o[p], t[p])],
           !.conflicts = {[path |-> p, ancestor |-> b[p], our |-> o[p], their |-> t[p]]
                            : p \in bad},
           !.workdir = [p \in Paths |->
                          IF p \in bad THEN ConflictFile(o[p], t[p])
                          ELSE PathMerged(b[p], o[p], t[p])],
           !.merge_head = their]

\* Lines 98-111: conflicts are printed and pull returns Err; the repository
\* is left as the merge left it.
OnConflicts_Cleanup(r) == [r EXCEPT !.merge_head = 0, !.conflicts = {}]
OnConflicts(r) == r

\* Lines 120-136: the merge commit, then repo.cleanup_state().
MergeCommit_Swapped(cs, r, head, their) ==
    [cs |-> Append(cs, [parents |-> <<their, head>>, tree |-> r.index,
                        message |-> "merge", author |-> "daemon"]),
     r |-> [r EXCEPT !.refs[r.head_name] = Len(cs) + 1, !.merge_head = 0]]
MergeCommit(cs, r, head, their) ==
    [cs |-> Append(cs, [parents |-> <<head, their>>, tree |-> r.index,
                        message |-> "merge", author |-> "daemon"]),
     r |-> [r EXCEPT !.refs[r.head_name] = Len(cs) + 1, !.merge_head = 0]]

\* Lines 100-108: the path printed for one conflict entry is taken from the
\* entry's "their" side; an entry without that side (the remote deleted the
\* file) prints the literal instead.  String::from_utf8 leaves the paths
\* modelled here, which are valid UTF-8, as they are.
conflict_path(c) == IF c.their # Absent THEN c.path ELSE "<error_no_conflict>"

\* Lines 99-109: one line is printed per conflict entry of the index.
ReportedConflicts(conflicts) ==
    {[path |-> c.path, printed |-> conflict_path(c)] : c \in conflicts}

PullFaults == {"none", "fetch"}

pull(cs, r, org, fault) ==
    LET fetched == [r EXCEPT !.tracking = org]
        head == HeadCommit(r)
        their == org
        analysis == merge_analysis(cs, head, their)
        merged == merge(cs, fetched, their)
        mc == MergeCommit(cs, merged, head, their)
    IN  IF fault = "fetch"
        THEN [cs |-> cs, r |-> r, res |-> "Err", kind |-> "fetch_error", analysis |-> {},
              reported |-> {}]
        ELSE IF "up_to_date" \in analysis
        THEN [cs |-> cs, r |-> fetched, res |-> "Ok", kind |-> "up_to_date",
              analysis |-> analysis, reported |-> {}]
        ELSE IF "fast_forward" \in analysis \/ "normal" \in analysis
        THEN IF merged.conflicts # {}
             THEN [cs |-> cs, r |-> OnConflicts(merged), res |-> "Err",
                   kind |-> "conflicts", analysis |-> analysis,
                   reported |-> ReportedConflicts(merged.conflicts)]
             ELSE IF DiffIsEmpty(cs[head].tree, merged.index)
             THEN [cs |-> cs, r |-> merged, res |-> "Ok", kind |-> "empty",
                   analysis |-> analysis, reported |-> {}]
             ELSE [cs |-> mc.cs, r |-> mc.r, res |-> "Ok", kind |-> "merged",
                   analysis |-> analysis, reported |-> {}]
        ELSE [cs |-> cs, r |-> fetched, res |-> "Err", kind |-> "unknown",
              analysis |-> analysis, reported |-> {}]

\* --------------------------------------------------------- push (144-156)
\* The push_update_reference callback (59-62): prints name and status and
\* returns Ok(()) whatever the status.
push_update_reference(status) == "Ok"

\* Status the remote reports for the pushed reference: "" is acceptance.
PushStatuses == {"", "rejected"}
PushFaults == {"none", "network"}

push(cs, r, org, fault, status) ==
    LET local == r.refs[branch_name]
    IN  IF fault = "network"
        THEN [r |-> r, org |-> org, res |-> "Err", status |-> "none"]
        ELSE IF ~IsAncestor(cs, org, local)          \* not a fast-forward
        THEN [r |-> r, org |-> org, res |-> "Err", status |-> "none"]
        ELSE IF local = org                          \* nothing to update
        THEN [r |-> r, org |-> org, res |-> "Ok", status |-> "none"]
        ELSE IF status = ""
        THEN [r |-> [r EXCEPT !.tracking = local], org |-> local,
              res |-> push_update_reference(status), status |-> status]
        ELSE [r |-> r, org |-> org,
              res |-> push_update_reference(status), status |-> status]

\* ------------------------------------------------- run and main (158-220)
\* run() is an async fn without any .await: once polled it runs commit, pull
\* and push to the end, and never hands control back to Timeout::poll in
\* between.
RunSuspends(phase) == FALSE

\* run(): commit(&repo)?; pull(..)?; push(..)?; Ok(())  -- and
\* Timeout::poll, which looks at the deadline only when the inner future
\* returned Pending.
AfterPhase_IgnoreErr(phase, res, el, dl) ==
    IF phase = "commit" THEN "pull" ELSE IF phase = "pull" THEN "push" ELSE "end"
AfterPhase(phase, res, el, dl) ==
    IF RunSuspends(phase) /\ el >= dl THEN "timed_out"
    ELSE IF res = "Err" THEN "alert"
    ELSE IF phase = "commit" THEN "pull"
    ELSE IF phase = "pull" THEN "push"
    ELSE "end"

\* The closure given to unwrap_or_else (187-202): what the alert did.
AlertResults == {"no_cwd", "no_asset", "no_device", "undecodable", "played"}
AlertFailures == {"no_asset", "no_device", "undecodable"}

\* File::open(..).unwrap(), default_output_device().unwrap() and
\* Decoder::new(..).unwrap() panic; a failing current_dir() skips the alert.
ErrorHandler(a) == IF a \in AlertFailures THEN "panicked" ELSE "end"

\* Lines 214-217: handled_run().await, then one handled_run().await per value
\* the timer's iterator yields; the loop asks for the next value only after
\* the previous handled_run() has returned.
AttemptPcs == {"commit", "pull", "push", "alert", "end", "timed_out"}
MainAwaitsTick_Always(p) == p \in AttemptPcs \cup {"wait"}
MainAwaitsTick(p) == p = "wait"

\* Line 215-216: once handled_run() has returned, main() asks the timer's
\* iterator for the next value.
AfterReturn_Rerun(p) == "startup"
AfterReturn(p) == "wait"

\* Timer::new().interval_ms(interval_ms): the period, in milliseconds (the
\* values explored stay below 2^31).
TickPeriod ==
    interval_ms(interval_minutes).hi * Limb + interval_ms(interval_minutes).lo

\* How long after the start of the attempt that has just returned the next
\* one can start, the attempt having run for ran milliseconds.  The timer is
\* created only when the startup attempt has returned (line 215), so its
\* first tick comes one period after that return.  Later ticks come one
\* period apart; a tick that fell due while handled_run() was still running
\* cannot start an attempt before the return: the iterator either hands it
\* out at once or waits for the next boundary.
NextStartGaps(trigger, ran, period) ==
    IF trigger = "startup" THEN {ran + period}
    ELSE IF ran < period THEN {period}
    ELSE {ran, (ran \div period + 1) * period}

Sched == IF pc \in AttemptPcs THEN "Running"
         ELSE IF pc = "panicked" THEN "Terminated" ELSE "Idle"

Deadline == timeout_secs(interval_ms(interval_minutes))

NoPhase == [commit |-> "none", pull |-> "none", push |-> "none"]
NoCommit == [ran |-> FALSE, clean |-> FALSE, wasFresh |-> FALSE, created |-> FALSE,
             moved |-> FALSE, fresh |-> FALSE, headBefore |-> 0, new |-> 0,
             added |-> 0]
NoPull == [kind |-> "none", analysis |-> {}, headBefore |-> 0, made |-> 0,
           reported |-> {}]
NoConflict == [pending |-> FALSE, made |-> 0]

Made == Cardinality(DaemonCommits(commits))

Setup ==
    /\ commits = <<[parents |-> <<>>, tree |-> RootTree,
                    message |-> "init", author |-> "other"]>>
    /\ repo \in {[refs |-> [b \in Branches |-> 1], head_name |-> h, tracking |-> 1,
                  index |-> RootTree, conflicts |-> {}, workdir |-> RootTree,
                  merge_head |-> 0] : h \in HeadChoices}
    /\ origin = 1
    /\ pc = "config"
    /\ inflight = 0
    /\ elapsed = 0
    /\ phaseRes = NoPhase
    /\ outcome = "none"
    /\ alert = "none"
    /\ timeout_result = "none"
    /\ pushStatus = "none"
    /\ lastCommit = NoCommit
    /\ lastPull = NoPull
    /\ conflictLeft = NoConflict
    /\ ticker = [startups |-> 0, trigger |-> "none", gap |-> 0, afterLate |-> FALSE,
                 nextGaps |-> {}, prevLate |-> FALSE]

Init ==
    /\ interval_minutes = 1
    /\ Setup

TimedInit ==
    /\ interval_minutes \in IntervalChoices
    /\ Setup

\* handled_run() is entered: a new attempt, started by trigger t, g
\* milliseconds after the previous attempt started.
BeginAttempt(t, g) ==
    /\ ticker' = [ticker EXCEPT
                    !.startups = IF t = "startup" THEN @ + 1 ELSE @,
                    !.trigger = t,
                    !.gap = g,
                    !.afterLate = ticker.prevLate]
    /\ pc' = "commit"
    /\ inflight' = inflight + 1
    /\ elapsed' = 0
    /\ phaseRes' = NoPhase
    /\ outcome' = "none"
    /\ alert' = "none"
    /\ pushStatus' = "none"
    /\ lastPull' = NoPull
    /\ UNCHANGED <<interval_minutes, commits, repo, origin, timeout_result,
                   lastCommit, conflictLeft>>

\* Lines 176-183: the configuration is read, the repository opened and the
\* interval computed.
LoadConfig ==
    /\ pc = "config"
    /\ \E build \in Builds :
         pc' = IF build = "debug" /\ IntervalOverflows(interval_minutes)
               THEN "panicked" ELSE "startup"
    /\ UNCHANGED <<interval_minutes, commits, repo, origin, inflight, elapsed,
                   phaseRes, outcome, alert, timeout_result, pushStatus,
                   lastCommit, lastPull, conflictLeft, ticker>>

\* Line 214.
StartupRun ==
    /\ pc = "startup"
    /\ BeginAttempt("startup", 0)

\* Lines 215-216: the timer's iterator yields and the loop body starts.
Tick ==
    /\ MainAwaitsTick(pc)
    /\ \E g \in ticker.nextGaps : BeginAttempt("tick", g)

\* Line 168.
Commit ==
    /\ pc = "commit"
    /\ \E f \in CommitFaults :
         LET out == commit(commits, repo, f)
         IN  /\ Cardinality(DaemonCommits(out.cs)) <= MaxMade
             /\ commits' = out.cs
             /\ repo' = out.r
             /\ phaseRes' = [phaseRes EXCEPT !.commit = out.res]
             /\ outcome' = IF out.res = "Err" THEN "CommitError" ELSE outcome
             /\ pc' = AfterPhase("commit", out.res, elapsed, Deadline)
             /\ lastCommit' =
                  [ran |-> TRUE,
                   clean |-> repo.workdir = commits[HeadCommit(repo)].tree,
                   wasFresh |-> lastCommit.fresh,
                   created |-> out.created,
                   moved |-> HeadCommit(out.r) # HeadCommit(repo),
                   fresh |-> out.created \/ (f # "head" /\ lastCommit.fresh),
                   headBefore |-> IF f = "head" THEN 0 ELSE HeadCommit(repo),
                   new |-> IF out.created THEN Len(out.cs) ELSE 0,
                   added |-> Len(out.cs) - Len(commits)]
    /\ UNCHANGED <<interval_minutes, origin, inflight, elapsed, alert,
                   timeout_result, pushStatus, lastPull, conflictLeft, ticker>>

\* Line 169.
Pull ==
    /\ pc = "pull"
    /\ \E f \in PullFaults :
         LET out == pull(commits, repo, origin, f)
         IN  /\ Cardinality(DaemonCommits(out.cs)) <= MaxMade
             /\ commits' = out.cs
             /\ repo' = out.r
             /\ phaseRes' = [phaseRes EXCEPT !.pull = out.res]
             /\ outcome' = IF out.kind = "conflicts" THEN "Conflicts"
                           ELSE IF out.res = "Err" THEN "PullError" ELSE outcome
             /\ pc' = AfterPhase("pull", out.res, elapsed, Deadline)
             /\ lastPull' = [kind |-> out.kind, analysis |-> out.analysis,
                             headBefore |-> HeadCommit(repo), made |-> Made,
                             reported |-> out.reported]
             /\ lastCommit' = [lastCommit EXCEPT
                                 !.fresh = @ /\ out.r.workdir = repo.workdir]
             /\ conflictLeft' =
                  IF out.kind = "conflicts" /\ ~conflictLeft.pending
                  THEN [pending |-> TRUE, made |-> Made]
                  ELSE conflictLeft
    /\ UNCHANGED <<interval_minutes, origin, inflight, elapsed, alert,
                   timeout_result, pushStatus, ticker>>

\* Line 170.
Push ==
    /\ pc = "push"
    /\ \E f \in PushFaults, s \in PushStatuses :
         LET out == push(commits, repo, origin, f, s)
         IN  /\ repo' = out.r
             /\ origin' = out.org
             /\ pushStatus' = out.status
             /\ phaseRes' = [phaseRes EXCEPT !.push = out.res]
             /\ outcome' = IF out.res = "Err" THEN "PushError" ELSE "Ok"
             /\ pc' = AfterPhase("push", out.res, elapsed, Deadline)
    /\ UNCHANGED <<interval_minutes, commits, inflight, elapsed, alert,
                   timeout_result, lastCommit, lastPull, conflictLeft, ticker>>

\* Lines 187-202: run() returned Err.
Alert ==
    /\ pc = "alert"
    /\ \E a \in AlertResults :
         /\ alert' = a
         /\ pc' = ErrorHandler(a)
    /\ UNCHANGED <<interval_minutes, commits, repo, origin, inflight, elapsed, phaseRes, outcome, timeout_result, pushStatus,
                   lastCommit, lastPull, conflictLeft, ticker>>

\* Lines 205-211: timeout returns, "timed out" is printed on Err, then "end".
HandledRunReturn ==
    /\ pc \in {"end", "timed_out"}
    /\ timeout_result' = IF pc = "timed_out" THEN "Elapsed" ELSE "Ok"
    /\ inflight' = inflight - 1
    /\ pc' = AfterReturn(pc)
    /\ ticker' = [ticker EXCEPT
                    !.trigger = "none",
                    !.gap = 0,
                    !.afterLate = FALSE,
                    !.nextGaps = NextStartGaps(ticker.trigger, elapsed * 1000,
                                               TickPeriod),
                    !.prevLate = elapsed >= Deadline]
    /\ elapsed' = 0
    /\ phaseRes' = NoPhase
    /\ outcome' = "none"
    /\ alert' = "none"
    /\ pushStatus' = "none"
    /\ lastPull' = NoPull
    /\ lastCommit' = [NoCommit EXCEPT !.fresh = lastCommit.fresh]
    /\ UNCHANGED <<interval_minutes, commits, repo, origin, conflictLeft>>

\* Environment: the network call the attempt is in (the fetch of pull, the
\* push) blocks for as long as the deadline given to the timeout.
Block ==
    /\ pc \in {"pull", "push"}
    /\ elapsed < MaxBlocked * Deadline
    /\ elapsed' = elapsed + Deadline
    /\ UNCHANGED <<interval_minutes, commits, repo, origin, pc, inflight,
                   phaseRes, outcome, alert, timeout_result, pushStatus,
                   lastCommit, lastPull, conflictLeft, ticker>>

\* Environment: the user changes, creates or deletes a file.
UserEdit ==
    /\ pc \in {"startup", "wait"}
    /\ \E p \in Paths, c \in UserContents :
         /\ c # repo.workdir[p]
         /\ repo' = [repo EXCEPT !.workdir[p] = c]
    /\ lastCommit' = [lastCommit EXCEPT !.fresh = FALSE]
    /\ conflictLeft' = NoConflict
    /\ UNCHANGED <<interval_minutes, commits, origin, pc, inflight, elapsed, phaseRes, outcome, alert, timeout_result, pushStatus,
                   lastPull, ticker>>

\* Environment: another client pushes one commit on top of origin's branch.
RemotePush ==
    /\ pc \notin {"config", "panicked"}
    /\ Len(commits) - Made <= MaxOther
    /\ \E p \in Paths, c \in OtherContents :
         commits' = Append(commits,
                      [parents |-> <<origin>>,
                       tree |-> [commits[origin].tree EXCEPT ![p] = c],
                       message |-> "other", author |-> "other"])
    /\ origin' = Len(commits) + 1
    /\ UNCHANGED <<interval_minutes, repo, pc, inflight, elapsed,
                   phaseRes, outcome, alert, timeout_result, pushStatus,
                   lastCommit, lastPull, conflictLeft, ticker>>

Next ==
    \/ LoadConfig
    \/ StartupRun
    \/ Tick
    \/ Commit
    \/ Pull
    \/ Push
    \/ Alert
    \/ HandledRunReturn
    \/ UserEdit
    \/ RemotePush

Spec == Init /\ [][Next]_vars

TimedNext ==
    \/ LoadConfig
    \/ StartupRun
    \/ Tick
    \/ Commit
    \/ Pull
    \/ Push
    \/ Alert
    \/ HandledRunReturn
    \/ UserEdit
    \/ Block

TimedSpec == TimedInit /\ [][TimedNext]_vars

\* ===================================================================
\* Properties
\* ===================================================================
FailureOutcomes == {"CommitError", "PullError", "Conflicts", "PushError"}

\* C1: at most one attempt is in flight at any time: a new attempt is never
\* started while a previous handled_run() has not returned.
C1_AtMostOneAttemptInFlight ==
    /\ inflight <= 1
    /\ pc \in AttemptPcs => inflight = 1
    /\ pc \in {"config", "startup", "wait"} => inflight = 0

\* A later attempt is in flight, blocked in a network call past the deadline,
\* after an earlier handled_run() has returned.
C1_Witness ==
    /\ timeout_result = "Ok"
    /\ pc = "push"
    /\ inflight = 1
    /\ elapsed >= Deadline

\* C2: whatever the outcome of an attempt, the scheduler returns to Idle and
\* the process is never terminated by a single attempt's failure.
C2_FailedAttemptNeverTerminates ==
    outcome \in FailureOutcomes => Sched \in {"Running", "Idle"}

\* C3: an attempt that has not completed by its deadline is abandoned and
\* reported as timed out: no attempt that ran past the deadline comes back
\* from run() as completed.
C3_LateAttemptTimesOut ==
    (pc \in {"end", "timed_out"} /\ elapsed >= Deadline) => pc = "timed_out"

\* C4: when pull classifies the fetched commit as a fast-forward and returns
\* Ok, the local head is exactly the remote tracking commit and the daemon
\* has created no commit.
C4_FastForwardMovesPointer ==
    (pc = "push" /\ "fast_forward" \in lastPull.analysis)
        => /\ HeadCommit(repo) = repo.tracking
           /\ Made = lastPull.made

\* C5: when the remote reports a non-empty status for the pushed reference,
\* the push phase returns an error and the attempt is not a success.
C5_RejectedPushFails ==
    pushStatus = "rejected" => (phaseRes.push = "Err" /\ outcome # "Ok")

\* C6: an attempt whose merge left conflicts ends as a conflict failure with
\* no commit created since the merge began, the local head where it was
\* before the merge, the merge state and the conflict entries still in
\* place, and no push attempted.
C6_ConflictAbortsAttempt ==
    outcome = "Conflicts"
        => /\ phaseRes.pull = "Err"
           /\ Made = lastPull.made
           /\ HeadCommit(repo) = lastPull.headBefore
           /\ repo.merge_head # 0
           /\ repo.conflicts # {}
           /\ phaseRes.push = "none"
           /\ pc \in {"alert", "end", "panicked"}

\* An attempt has ended in conflicts and is about to return.
C6_Witness == outcome = "Conflicts" /\ pc = "end"

\* C7: once an attempt has ended with conflicts, and until a human touches
\* the working tree, later attempts neither clear the conflict entries of
\* the index nor create a commit.
C7_ConflictLeftForHuman ==
    conflictLeft.pending
        => /\ repo.conflicts # {}
           /\ Made = conflictLeft.made

\* C8: within an attempt, pull runs only after commit returned Ok and push
\* only after pull returned Ok: push is never attempted after a failure.
C8_PhasesInOrder ==
    /\ phaseRes.pull # "none" => phaseRes.commit = "Ok"
    /\ phaseRes.push # "none" => phaseRes.pull = "Ok"
    /\ pc = "pull" => (phaseRes.commit = "Ok" /\ phaseRes.pull = "none")
    /\ pc = "push" => (phaseRes.pull = "Ok" /\ phaseRes.push = "none")

\* An attempt whose pull failed has gone through the error handler without a
\* push.
C8_Witness ==
    /\ pc = "end"
    /\ phaseRes.pull = "Err"
    /\ phaseRes.push = "none"

\* C9: a failure to play the alert never fails the attempt or the daemon.
C9_AlertFailureIsHarmless ==
    alert \in AlertFailures => Sched # "Terminated"

\* C10: commit() on a working tree whose staged tree equals the head's tree,
\* and commit() run again after it created a snapshot with the working tree
\* unchanged in between, creates no commit and does not move the branch.
C10_CleanTreeNoCommit ==
    (lastCommit.ran /\ (lastCommit.clean \/ lastCommit.wasFresh))
        => (~lastCommit.created /\ ~lastCommit.moved)

\* commit() has just run again after the snapshot an earlier attempt created,
\* the working tree untouched in between.
C10_Witness ==
    /\ lastCommit.ran
    /\ lastCommit.wasFresh
    /\ ~lastCommit.created
    /\ Made >= 1

\* C11: when commit() finds the working tree different from the head's tree,
\* it creates exactly one commit, whose sole parent is the head commit() read
\* at its start, whose tree is the staged working tree and whose message is
\* "sync", and the branch HEAD is attached to points at that commit.
C11_SnapshotCommit ==
    (pc \in {"pull", "alert"} /\ phaseRes.pull = "none" /\ lastCommit.ran
       /\ lastCommit.headBefore # 0 /\ ~lastCommit.clean)
        => /\ lastCommit.created
           /\ lastCommit.added = 1
           /\ lastCommit.new \in DaemonCommits(commits)
           /\ commits[lastCommit.new].parents = <<lastCommit.headBefore>>
           /\ commits[lastCommit.new].tree = repo.workdir
           /\ commits[lastCommit.new].tree = repo.index
           /\ commits[lastCommit.new].message = "sync"
           /\ HeadCommit(repo) = lastCommit.new
           /\ repo.refs[repo.head_name] = lastCommit.new

\* commit() has just snapshotted a user's edit on top of an earlier snapshot.
C11_Witness ==
    /\ pc = "pull"
    /\ lastCommit.created
    /\ ~lastCommit.clean
    /\ lastCommit.headBefore \in DaemonCommits(commits)
    /\ commits[lastCommit.new].tree # commits[lastCommit.headBefore].tree

\* C12: when the histories have diverged and pull's merge left no conflict
\* and an index that differs from the pre-merge head's tree, pull has created
\* exactly one commit, with the two parents (pre-merge local head, remote
\* tracking commit) in that order, the merged tree and the message "merge";
\* the branch HEAD is attached to points at it and MERGE_HEAD is cleared.
C12_MergeCommit ==
    (pc = "push" /\ lastPull.analysis = {"normal"}
       /\ repo.index # commits[lastPull.headBefore].tree)
        => /\ Made = lastPull.made + 1
           /\ HeadCommit(repo) \in DaemonCommits(commits)
           /\ HeadCommit(repo) # lastPull.headBefore
           /\ commits[HeadCommit(repo)].parents
                  = <<lastPull.headBefore, repo.tracking>>
           /\ commits[HeadCommit(repo)].message = "merge"
           /\ commits[HeadCommit(repo)].tree = repo.index
           /\ repo.merge_head = 0
           /\ repo.conflicts = {}

\* pull has just merged a remote commit into a diverged local snapshot: both
\* sides' changes are in the merged tree.
C12_Witness ==
    /\ pc = "push"
    /\ lastPull.analysis = {"normal"}
    /\ lastPull.kind = "merged"
    /\ commits[HeadCommit(repo)].tree # commits[lastPull.headBefore].tree
    /\ commits[HeadCommit(repo)].tree # commits[repo.tracking].tree

C13_NextAttemptOnSchedule ==
    (ticker.trigger = "tick" /\ ticker.afterLate) => ticker.gap = TickPeriod

\* C14: one attempt is started at startup, before main() waits for any tick,
\* and it is the only one started without a tick; every other attempt is
\* started by a value of the timer's iterator.
C14_StartupThenTicks ==
    /\ ticker.startups <= 1
    /\ pc \in AttemptPcs => ticker.trigger \in {"startup", "tick"}
    /\ pc \in {"config", "startup"}
          => (ticker.startups = 0 /\ ticker.trigger = "none")
    /\ pc = "wait" => (ticker.startups = 1 /\ ticker.trigger = "none")
    /\ ticker.trigger = "tick" => ticker.startups = 1
    /\ ticker.trigger = "startup" => (ticker.startups = 1 /\ ticker.gap = 0)

\* An attempt started by a tick is running, after the startup attempt and an
\* earlier tick's attempt have returned.
C14_Witness ==
    /\ ticker.trigger = "tick"
    /\ ticker.startups = 1
    /\ ticker.gap = TickPeriod
    /\ pc = "push"

\* C16: the deadline handed to the timeout is half the configured interval:
\* interval_minutes * 30 seconds (checked where the interval does not
\* overflow, so that only the halving and the unit are in question).
C16_DeadlineIsHalfInterval ==
    (pc \in AttemptPcs /\ ~IntervalOverflows(interval_minutes))
        => Deadline = interval_minutes * 30

\* C17: when a merge leaves conflicts in the index, pull reports one path
\* per conflict entry and each reported path is that entry's path, also for
\* an entry that has no "their" side.
C17_ReportedConflictPaths ==
    outcome = "Conflicts"
        => /\ {x.path : x \in lastPull.reported} = {c.path : c \in repo.conflicts}
           /\ \A x \in lastPull.reported : x.printed = x.path

\* C18: whenever pull has returned Ok, the fetched remote tracking commit is
\* the local head or one of its ancestors, so that the push which follows is
\* a fast-forward of the remote branch (checked with HEAD attached to the
\* configured branch).
C18_PullOkMakesPushFastForward ==
    (pc = "push" /\ repo.head_name = branch_name)
        => /\ IsAncestor(commits, repo.tracking, HeadCommit(repo))
           /\ IsAncestor(commits, repo.tracking, repo.refs[branch_name])

\* C19: the reference push sends, refs/heads/<branch_name>, is the one the
\* commit and pull phases of the attempt advanced: every commit the attempt
\* created is reachable from it when push starts.
C19_PushedRefHoldsNewCommits ==
    pc = "push"
        => /\ lastCommit.created
                => IsAncestor(commits, lastCommit.new, repo.refs[branch_name])
           /\ lastPull.kind = "merged"
                => IsAncestor(commits, HeadCommit(repo), repo.refs[branch_name])

\* C20: for every configured interval_minutes the interval computed at
\* startup is interval_minutes * 60000 milliseconds exactly, nothing being
\* lost to 32-bit overflow: once the configuration is loaded the daemon
\* runs, and the deadline derived from the interval (half its millisecond
\* count) is 30000 per configured minute.
C20_IntervalExact ==
    pc # "config"
        => /\ pc # "panicked" \/ alert # "none"
           /\ Deadline % 30000 = 0
           /\ Deadline \div 30000 = interval_minutes

====
